---- MODULE Spec2Model ----
(***************************************************************************)
(* Model of lucid/misc/io/saving.py: the process-wide stack of capture     *)
(* lists (CaptureSaveContext), the extension registry (savers), the format *)
(* drivers (save_json, save_npy, save_npz, save_img, save_txt, save_pb)    *)
(* and the dispatcher (save).                                              *)
(*                                                                         *)
(* Strings are sequences of one-character strings, byte strings are        *)
(* sequences of integers 0..255.  Every call of save leaves a record of    *)
(* what it did in the variable call: the events it caused, in program      *)
(* order (open, write, close, warnings, raise), the driver it selected,    *)
(* and what the caller got back.                                           *)
(***************************************************************************)
EXTENDS Integers, Sequences, FiniteSets, TLC

VARIABLES save_contexts, captured_saves, active, exit_fault, call

vars == <<save_contexts, captured_saves, active, exit_fault, call>>

(***************************************************************************)
(* Bounds of the model.                                                    *)
(***************************************************************************)
MaxDepth == 2
MaxCaptured == 1
MaxLines == 2

(***************************************************************************)
(* Sequence helpers.                                                       *)
(***************************************************************************)
Last(s) == s[Len(s)]

Front(s) == SubSeq(s, 1, Len(s) - 1)

SeqsUpTo(S, n) == UNION {[1..k -> S] : k \in 0..n}

(***************************************************************************)
(* Text.  A str is a sequence of characters, a bytes value a sequence of   *)
(* integers.  str.encode() is UTF-8: one byte for an ASCII character, two  *)
(* for U+00E9.  repr of an int is its decimal numeral.                     *)
(***************************************************************************)
Utf8(c) ==
  CASE c = "a" -> <<97>>
    [] c = "b" -> <<98>>
    [] c = "c" -> <<99>>
    [] c = "\n" -> <<10>>
    [] c = "-" -> <<45>>
    [] c = "U+00E9" -> <<195, 169>>
    [] c \in {"0", "1", "2", "3", "4", "5", "6", "7", "8", "9"} ->
         <<48 + (CHOOSE d \in 0..9 : ToString(d) = c)>>

RECURSIVE encode(_)
encode(s) == IF s = <<>> THEN <<>> ELSE Utf8(Head(s)) \o encode(Tail(s))

RECURSIVE Digits(_)
Digits(n) ==
  IF n < 10 THEN <<ToString(n)>> ELSE Digits(n \div 10) \o <<ToString(n % 10)>>

repr(n) == IF n < 0 THEN <<"-">> \o Digits(0 - n) ELSE Digits(n)

endswith(line, suffix) ==
  /\ Len(line) >= Len(suffix)
  /\ SubSeq(line, Len(line) - Len(suffix) + 1, Len(line)) = suffix

(***************************************************************************)
(* os.path.splitext on a POSIX path: the extension starts at the last dot  *)
(* that follows the last separator, unless only dots precede it in the     *)
(* final path segment.                                                     *)
(***************************************************************************)
rfind(p, c) ==
  IF \E i \in DOMAIN p : p[i] = c
    THEN CHOOSE i \in DOMAIN p : p[i] = c /\ \A j \in DOMAIN p : p[j] = c => j <= i
    ELSE 0

splitext(p) ==
  LET sepIndex == rfind(p, "/")
      dotIndex == rfind(p, ".")
  IN IF /\ dotIndex > sepIndex
        /\ \E k \in (sepIndex + 1)..(dotIndex - 1) : p[k] # "."
       THEN <<SubSeq(p, 1, dotIndex - 1), SubSeq(p, dotIndex, Len(p))>>
       ELSE <<p, <<>>>>

(***************************************************************************)
(* Values a caller may hand to save.                                       *)
(***************************************************************************)
StrVal(s) == [t |-> "str", v |-> s]

BytesVal(b) == [t |-> "bytes", v |-> b]

IntVal(n) == [t |-> "int", v |-> n]

LineElems ==
  { StrVal(<<"a", "b", "c">>), StrVal(<<"a", "\n">>), StrVal(<<"U+00E9">>),
    BytesVal(<<98>>), BytesVal(<<98, 10>>), IntVal(42) }

Lists == {[t |-> "list", v |-> l] : l \in SeqsUpTo(LineElems, MaxLines)}

Things ==
  { [t |-> "ndarray", v |-> <<>>],
    [t |-> "Image", v |-> <<>>],
    [t |-> "dict", v |-> <<StrVal(<<"a">>), StrVal(<<"b">>)>>],
    [t |-> "dict", v |-> <<IntVal(1)>>],
    [t |-> "Message", v |-> <<>>],
    [t |-> "object", v |-> <<>>],
    StrVal(<<"a", "b">>) } \cup Lists

Names ==
  { <<"x">>, <<".", "t", "x", "t">>, <<"a", ".", "b", "/", "x">>,
    <<"x", ".">>, <<"x", ".", "f", "o", "o">>,
    <<"x", ".", "p", "n", "g">>, <<"x", ".", "j", "p", "g">>,
    <<"x", ".", "j", "p", "e", "g">>, <<"x", ".", "n", "p", "y">>,
    <<"x", ".", "n", "p", "z">>, <<"x", ".", "j", "s", "o", "n">>,
    <<"x", ".", "t", "x", "t">>, <<"x", ".", "p", "b">>,
    <<"x", ".", "P", "N", "G">>, <<"x", ".", "T", "x", "t">> }

Destinations == {[kind |-> k, name |-> n] : k \in {"url", "handle"}, n \in Names}

(***************************************************************************)
(* What a call does is a record: the result handed back (a dict or None),  *)
(* the exception raised (or NoExc), and the events caused, in program      *)
(* order.  An event is [op, arg]; op is one of "open", "write", "close",   *)
(* "savez", "log.warning", "warnings.warn", "raise".                       *)
(***************************************************************************)
Event(op, arg) == [op |-> op, arg |-> arg]

NoExc == [type |-> "none", by |-> "none"]

Exc(type, by) == [type |-> type, by |-> by]

None == [kind |-> "None", keys |-> {}, type |-> "", url |-> <<>>]

NoResult == [kind |-> "raised", keys |-> {}, type |-> "", url |-> <<>>]

Dict(keys, type, url) == [kind |-> "dict", keys |-> keys, type |-> type, url |-> url]

Returns(result, log) == [result |-> result, exc |-> NoExc, log |-> log]

Raises(type, by, log) ==
  [result |-> NoResult, exc |-> Exc(type, by),
   log |-> log \o <<Event("raise", type)>>]

(***************************************************************************)
(* ClarityJSONEncoder.default: tuples, numpy scalars, arrays and objects   *)
(* with to_json are converted; json itself encodes str, list and dict with *)
(* str or int keys; anything else makes json.dumps raise TypeError.        *)
(***************************************************************************)
JsonEncodable(object) ==
  \/ object.t \in {"ndarray", "str", "int", "dict"}
  \/ object.t = "list" /\ \A i \in DOMAIN object.v : object.v[i].t \in {"str", "int"}

save_json(object, handle) ==
  IF JsonEncodable(object)
    THEN Returns(Dict({"type", "url"}, "json", handle.name),
                 <<Event("write", [t |-> "json", v |-> object])>>)
    ELSE Raises("TypeError", "save_json", <<>>)

(***************************************************************************)
(* np.save pickles what is not an array; the descriptor then reads         *)
(* object.shape, which only an array has.                                  *)
(***************************************************************************)
save_npy(object, handle) ==
  LET written == <<Event("write", [t |-> "npy", v |-> object])>>
  IN IF object.t = "ndarray"
       THEN Returns(Dict({"type", "shape", "url"}, "npy", handle.name), written)
       ELSE Raises("AttributeError", "save_npy", written)

(***************************************************************************)
(* save_npz warns, closes the handle it was given and writes by path.      *)
(* np.savez(path, **object) needs str keys; the function has no return     *)
(* statement.                                                              *)
(***************************************************************************)
MemberNames(n) == {<<"arr_", i - 1>> : i \in 1..n}

(* The switch on type(object) in save_npz, lines 113-119.                   *)
NpzWriteNoWarning(object, path) ==
  IF object.t = "list"
    THEN <<Event("savez", [path |-> path, members |-> MemberNames(Len(object.v))])>>
    ELSE <<Event("savez", [path |-> path, members |-> MemberNames(1)])>>

NpzWrite(object, path) ==
  IF object.t = "list"
    THEN <<Event("savez", [path |-> path, members |-> MemberNames(Len(object.v))])>>
    ELSE << Event("log.warning",
                  "Saving non dict or list as npz file, did you maybe want npy?"),
            Event("savez", [path |-> path, members |-> MemberNames(1)]) >>

save_npz(object, handle) ==
  LET path == handle.name
      before == << Event("log.warning", "Saving npz files currently only works locally. :/"),
                   Event("close", handle.name) >>
  IN IF object.t = "dict"
       THEN IF \A i \in DOMAIN object.v : object.v[i].t = "str"
              THEN Returns(None,
                     before \o <<Event("savez",
                                   [path |-> path,
                                    members |-> {<<"key", object.v[i].v>> : i \in DOMAIN object.v}])>>)
              ELSE Raises("TypeError", "save_npz", before)
       ELSE Returns(None, before \o NpzWrite(object, path))

save_img(object, handle) ==
  IF object.t \in {"ndarray", "Image"}
    THEN Returns(Dict({"type", "shape", "url"}, "image", handle.name),
                 <<Event("write", [t |-> "image", v |-> object])>>)
    ELSE Raises("ValueError", "save_img", <<>>)

(***************************************************************************)
(* save_txt.  One iteration of the loop over a list: a str is encoded, a   *)
(* value that is not bytes is replaced by the encoding of its repr with a  *)
(* warning naming its type, a newline is appended unless the line ends     *)
(* with one, and the line is written.                                      *)
(***************************************************************************)
TxtLineAlwaysTerminated(line) ==
  LET encoded == IF line.t = "str" THEN BytesVal(encode(line.v)) ELSE line
      converted == IF encoded.t # "bytes"
                     THEN BytesVal(encode(repr(encoded.v)))
                     ELSE encoded
  IN (IF encoded.t # "bytes" THEN <<Event("warnings.warn", line.t)>> ELSE <<>>)
     \o <<Event("write", BytesVal(converted.v \o <<10>>))>>

TxtLine(line) ==
  LET encoded == IF line.t = "str" THEN BytesVal(encode(line.v)) ELSE line
      converted == IF encoded.t # "bytes"
                     THEN BytesVal(encode(repr(encoded.v)))
                     ELSE encoded
      terminated == IF ~endswith(converted.v, <<10>>)
                      THEN BytesVal(converted.v \o <<10>>)
                      ELSE converted
  IN (IF encoded.t # "bytes" THEN <<Event("warnings.warn", line.t)>> ELSE <<>>)
     \o <<Event("write", terminated)>>

RECURSIVE TxtLines(_)
TxtLines(lines) ==
  IF lines = <<>> THEN <<>> ELSE TxtLine(Head(lines)) \o TxtLines(Tail(lines))

save_txt(object, handle) ==
  Returns(Dict({"type", "url"}, "txt", handle.name),
          IF object.t = "str"
            THEN <<Event("write", object)>>
            ELSE IF object.t = "list" THEN TxtLines(object.v) ELSE <<>>)

(***************************************************************************)
(* save_pb.  Only a Message has SerializeToString; the AttributeError of   *)
(* any other value is caught, a warning is issued and the same exception   *)
(* is raised again.  The function has no return statement.                 *)
(***************************************************************************)
save_pb_swallowing(object, handle) ==
  IF object.t = "Message"
    THEN Returns(None, <<Event("write", [t |-> "pb", v |-> object])>>)
    ELSE Returns(None, <<Event("warnings.warn", object.t)>>)

save_pb(object, handle) ==
  IF object.t = "Message"
    THEN Returns(None, <<Event("write", [t |-> "pb", v |-> object])>>)
    ELSE Raises("AttributeError", "save_pb", <<Event("warnings.warn", object.t)>>)

(***************************************************************************)
(* The registry and the dispatcher.  No keyword options are passed.        *)
(***************************************************************************)
savers ==
  (<<".", "p", "n", "g">> :> "save_img") @@
  (<<".", "j", "p", "g">> :> "save_img") @@
  (<<".", "j", "p", "e", "g">> :> "save_img") @@
  (<<".", "n", "p", "y">> :> "save_npy") @@
  (<<".", "n", "p", "z">> :> "save_npz") @@
  (<<".", "j", "s", "o", "n">> :> "save_json") @@
  (<<".", "t", "x", "t">> :> "save_txt") @@
  (<<".", "p", "b">> :> "save_pb")

Invoke(saver, thing, handle) ==
  CASE saver = "save_img" -> save_img(thing, handle)
    [] saver = "save_npy" -> save_npy(thing, handle)
    [] saver = "save_npz" -> save_npz(thing, handle)
    [] saver = "save_json" -> save_json(thing, handle)
    [] saver = "save_txt" -> save_txt(thing, handle)
    [] saver = "save_pb" -> save_pb(thing, handle)

(* write_handle(url): a scoped sink named after the location; it is opened *)
(* on entry and closed when the block is left, normally or by an exception *)
(* which then propagates.                                                  *)
write_handle(url, body) ==
  [body EXCEPT !.log = <<Event("open", url)>> \o @ \o <<Event("close", url)>>]

Opened(url) == [kind |-> "handle", name |-> url]

(* "No extension in URL: " + url_or_handle concatenates only two strs.     *)
MissingExtension(url_or_handle) ==
  IF url_or_handle.kind = "url"
    THEN Raises("RuntimeError", "save", <<>>)
    ELSE Raises("TypeError", "save", <<>>)

(* Lines 211-215: the driver runs on the caller's sink, or on a sink the   *)
(* dispatcher opens for the location and closes when the driver is done.   *)
DispatchLeakingOnRaise(saver, thing, url_or_handle) ==
  LET body == Invoke(saver, thing,
                     IF url_or_handle.kind = "handle"
                       THEN url_or_handle ELSE Opened(url_or_handle.name))
  IN IF url_or_handle.kind = "handle"
       THEN body
       ELSE IF body.exc = NoExc
         THEN write_handle(url_or_handle.name, body)
         ELSE [body EXCEPT !.log = <<Event("open", url_or_handle.name)>> \o @]

DispatchAlwaysScoped(saver, thing, url_or_handle) ==
  write_handle(url_or_handle.name, Invoke(saver, thing, Opened(url_or_handle.name)))

Dispatch(saver, thing, url_or_handle) ==
  IF url_or_handle.kind = "handle"
    THEN Invoke(saver, thing, url_or_handle)
    ELSE write_handle(url_or_handle.name,
                      Invoke(saver, thing, Opened(url_or_handle.name)))

save_outcome(thing, url_or_handle) ==
  LET ext == splitext(url_or_handle.name)[2]
      saver == IF ext \in DOMAIN savers THEN savers[ext] ELSE "none"
      done ==
        IF ext = <<>>
          THEN MissingExtension(url_or_handle)
          ELSE IF ext \notin DOMAIN savers
            THEN Raises("ValueError", "save", <<>>)
            ELSE Dispatch(saver, thing, url_or_handle)
  IN [thing |-> thing, dest |-> url_or_handle, ext |-> ext,
      saver |-> IF ext = <<>> THEN "none" ELSE saver,
      result |-> done.result, exc |-> done.exc, log |-> done.log]

NoCall ==
  [thing |-> [t |-> "none", v |-> <<>>], dest |-> [kind |-> "none", name |-> <<>>],
   ext |-> <<>>, saver |-> "none", result |-> NoResult, exc |-> NoExc, log |-> <<>>]

(***************************************************************************)
(* The capture stack.  A context object is known by its identity; its      *)
(* captured_saves list is captured_saves[c], and save_contexts holds       *)
(* references to these lists, so the stack is a sequence of identities.    *)
(* Python's == and in on lists compare contents, not identity.             *)
(* active is the history of the contexts entered and not yet exited; it    *)
(* is capped at MaxDepth like the stack, since an exit that pops another   *)
(* context's list lets it outgrow the stack.                               *)
(***************************************************************************)
Contexts == {"A", "B"}

Records == {"r"}

ListEq(c, d) == captured_saves[c] = captured_saves[d]

ListIn(c, stack) == \E i \in DOMAIN stack : ListEq(stack[i], c)

RemoveLast(s, c) ==
  IF \E i \in DOMAIN s : s[i] = c
    THEN LET k == CHOOSE i \in DOMAIN s : s[i] = c /\ \A j \in DOMAIN s : s[j] = c => j <= i
         IN SubSeq(s, 1, k - 1) \o SubSeq(s, k + 1, Len(s))
    ELSE s

Init ==
  /\ save_contexts = <<>>
  /\ captured_saves = [c \in Contexts |-> <<>>]
  /\ active = <<>>
  /\ exit_fault = "none"
  /\ call = NoCall

CaptureSaveContext_enter(c) ==
  /\ Len(save_contexts) < MaxDepth
  /\ Len(active) < MaxDepth
  /\ save_contexts' = Append(save_contexts, c)
  /\ active' = Append(active, c)
  /\ exit_fault' = "none"
  /\ UNCHANGED <<captured_saves, call>>

ExitAsserts(c) ==
  /\ ListIn(c, save_contexts)
  /\ ListEq(Last(save_contexts), c)

CaptureSaveContext_exit(c) ==
  /\ IF ExitAsserts(c)
       THEN /\ save_contexts' = Front(save_contexts)
            /\ active' = RemoveLast(active, c)
            /\ exit_fault' = "none"
       ELSE /\ exit_fault' = "AssertionError"
            /\ UNCHANGED <<save_contexts, active>>
  /\ UNCHANGED <<captured_saves, call>>

(* A component that records a save appends to the list on top of the stack. *)
Record(r) ==
  /\ save_contexts # <<>>
  /\ Len(captured_saves[Last(save_contexts)]) < MaxCaptured
  /\ captured_saves' =
       [captured_saves EXCEPT ![Last(save_contexts)] = Append(@, r)]
  /\ UNCHANGED <<save_contexts, active, exit_fault, call>>

save(thing, url_or_handle) ==
  /\ call = NoCall
  /\ call' = save_outcome(thing, url_or_handle)
  /\ UNCHANGED <<save_contexts, captured_saves, active, exit_fault>>

(* save is synchronous: its caller goes on once the call has ended.        *)
Resume ==
  /\ call # NoCall
  /\ call' = NoCall
  /\ UNCHANGED <<save_contexts, captured_saves, active, exit_fault>>

Next ==
  \/ \E c \in Contexts : CaptureSaveContext_enter(c)
  \/ \E c \in Contexts : CaptureSaveContext_exit(c)
  \/ \E r \in Records : Record(r)
  \/ \E thing \in Things, url_or_handle \in Destinations : save(thing, url_or_handle)
  \/ Resume

Spec == Init /\ [][Next]_vars

(* The dispatcher and the drivers alone, with no capture context in use.   *)
SaveNext ==
  \/ \E thing \in Things, url_or_handle \in Destinations : save(thing, url_or_handle)
  \/ Resume

SaveSpec == Init /\ [][SaveNext]_vars

(***************************************************************************)
(* Observations on the last call of save.                                  *)
(***************************************************************************)
Count(log, ops) == Cardinality({i \in DOMAIN log : log[i].op \in ops})

Closes == Count(call.log, {"close"})

Warnings == Count(call.log, {"log.warning", "warnings.warn"})

Registered == call # NoCall /\ call.ext \in DOMAIN savers

RECURSIVE WrittenBytes(_)
WrittenBytes(log) ==
  IF log = <<>> THEN <<>>
  ELSE (IF Head(log).op = "write" THEN Head(log).arg.v ELSE <<>>)
       \o WrittenBytes(Tail(log))

(* C1: for two distinct contexts that have been entered, exiting the one   *)
(* on top of the stack pops it without a fault, and exiting the other      *)
(* while it is not on top is an AssertionError that leaves the stack as it *)
(* is, whatever the two captured lists hold.                               *)
C1_NestingFaultDetected ==
  [][\A a \in Contexts :
       ((\E i \in DOMAIN save_contexts : save_contexts[i] = a)
          /\ CaptureSaveContext_exit(a)) =>
         IF Last(save_contexts) = a
           THEN exit_fault' = "none" /\ save_contexts' = Front(save_contexts)
           ELSE exit_fault' = "AssertionError" /\ save_contexts' = save_contexts]_vars

(* C2 as claimed: a save to a registered location closes the sink it       *)
(* opened exactly once, whether the driver returns or raises, for every    *)
(* driver.                                                                 *)
C2_OwnedSinkClosedOnce ==
  (Registered /\ call.dest.kind = "url") =>
    (Count(call.log, {"open"}) = 1 /\ Closes = 1)

(* C2: a save to a registered location opens one sink and closes it on     *)
(* every exit path, after the driver has ended: exactly once for every     *)
(* extension but .npz, and twice for .npz, whose driver closes the sink    *)
(* before the dispatcher does.                                             *)
C2_OwnedSinkClosedOnceExceptNpz ==
  (Registered /\ call.dest.kind = "url") =>
    /\ Count(call.log, {"open"}) = 1
    /\ Closes = IF call.ext = <<".", "n", "p", "z">> THEN 2 ELSE 1
    /\ Last(call.log).op = "close"

C2_Witness ==
  /\ call.dest.kind = "url"
  /\ call.saver = "save_img"
  /\ call.exc.type = "ValueError"
  /\ Closes = 1

(* C3 as claimed: a save to a caller's open sink never closes it, for      *)
(* every registered extension.                                             *)
C3_CallerSinkNeverClosed ==
  (Registered /\ call.dest.kind = "handle") => Closes = 0

(* C3: a save to a caller's open sink leaves it open when save returns or  *)
(* raises for every registered extension but .npz; the dispatcher never    *)
(* opens or closes it, and the .npz driver closes it once.                 *)
C3_CallerSinkOpenExceptNpz ==
  (Registered /\ call.dest.kind = "handle") =>
    /\ Count(call.log, {"open"}) = 0
    /\ Closes = IF call.ext = <<".", "n", "p", "z">> THEN 1 ELSE 0

C3_Witness ==
  /\ call.dest.kind = "handle"
  /\ call.saver = "save_img"
  /\ call.exc.type = "ValueError"

(* C4: save(value, "x" + T) with a registered T and a value its driver     *)
(* accepts returns a mapping whose type names the driver of T and whose    *)
(* url is the sink's name.                                                 *)
DescriptorType(saver) ==
  CASE saver = "save_img" -> "image"
    [] saver = "save_npy" -> "npy"
    [] saver = "save_npz" -> "npz"
    [] saver = "save_json" -> "json"
    [] saver = "save_txt" -> "txt"
    [] saver = "save_pb" -> "pb"

C4_DescriptorReturned ==
  (Registered /\ call.dest.kind = "url" /\ call.exc = NoExc) =>
    /\ call.saver = savers[call.ext]
    /\ call.result.kind = "dict"
    /\ {"type", "url"} \subseteq call.result.keys
    /\ call.result.type = DescriptorType(savers[call.ext])
    /\ call.result.url = call.dest.name

(* C5: save to a destination without an extension raises RuntimeError,     *)
(* for a location string and for an open sink alike.                       *)
C5_MissingExtensionRaised ==
  (call # NoCall /\ splitext(call.dest.name)[2] = <<>>) =>
    call.exc = Exc("RuntimeError", "save")

(* C6: the extension is lower-cased before the registry lookup, so every   *)
(* spelling of a registered extension selects the driver of that           *)
(* extension.                                                              *)
LowerChar(c) ==
  CASE c = "P" -> "p" [] c = "N" -> "n" [] c = "G" -> "g" [] c = "T" -> "t"
    [] OTHER -> c

Lower(s) == [i \in DOMAIN s |-> LowerChar(s[i])]

C6_LookupIgnoresCase ==
  (call # NoCall /\ Lower(splitext(call.dest.name)[2]) \in DOMAIN savers) =>
    /\ call.saver = savers[Lower(splitext(call.dest.name)[2])]
    /\ call.exc # Exc("ValueError", "save")

(* C7: the plain-text driver writes one record per line of a list, in      *)
(* order: a str or bytes line as it is, any other element as its repr,     *)
(* each ending with one newline that is appended only when missing;        *)
(* ["abc", 42] is written as "abc\n42\n".                                  *)
ExpectedRecord(line) ==
  CASE line = StrVal(<<"a", "b", "c">>) -> <<97, 98, 99, 10>>
    [] line = StrVal(<<"a", "\n">>) -> <<97, 10>>
    [] line = StrVal(<<"U+00E9">>) -> <<195, 169, 10>>
    [] line = BytesVal(<<98>>) -> <<98, 10>>
    [] line = BytesVal(<<98, 10>>) -> <<98, 10>>
    [] line = IntVal(42) -> <<52, 50, 10>>

RECURSIVE ExpectedText(_)
ExpectedText(lines) ==
  IF lines = <<>> THEN <<>>
  ELSE ExpectedRecord(Head(lines)) \o ExpectedText(Tail(lines))

C7_TextLinesWritten ==
  (call.saver = "save_txt" /\ call.thing.t = "list") =>
    /\ call.exc = NoExc
    /\ Count(call.log, {"write"}) = Len(call.thing.v)
    /\ WrittenBytes(call.log) = ExpectedText(call.thing.v)
    /\ (call.thing.v = <<StrVal(<<"a", "b", "c">>), IntVal(42)>> =>
          WrittenBytes(call.log) = <<97, 98, 99, 10, 52, 50, 10>>)

C7_Witness ==
  /\ call.saver = "save_txt"
  /\ call.thing = [t |-> "list", v |-> <<StrVal(<<"a", "\n">>), IntVal(42)>>]
  /\ Count(call.log, {"write"}) = 2

(* C8 as claimed: the bundle driver given a value that is neither a dict   *)
(* nor a list does not raise, emits one warning in all, and writes a       *)
(* bundle of one member.                                                   *)
SingleValueBundled ==
  /\ call.saver = "save_npz"
  /\ call.thing.t \notin {"dict", "list"}

BundleMembers ==
  {call.log[i].arg.members : i \in {j \in DOMAIN call.log : call.log[j].op = "savez"}}

C9_WarnThenReraise ==
  (call.saver = "save_pb" /\ call.thing.t # "Message") =>
    /\ call.exc = Exc("AttributeError", "save_pb")
    /\ Warnings = 1
    /\ Count(call.log, {"raise"}) = 1
    /\ \E i, j \in DOMAIN call.log :
         /\ i < j
         /\ call.log[i].op = "warnings.warn"
         /\ call.log[j] = Event("raise", "AttributeError")
    /\ Count(call.log, {"write"}) = 0

C9_Witness ==
  /\ call.saver = "save_pb"
  /\ call.thing.t = "object"
  /\ call.exc.type = "AttributeError"

(* C10: the stack is empty at first; a step in which no exit faults keeps  *)
(* the stack equal to the contexts entered and not yet exited, in entry    *)
(* order; an exit that faults leaves the stack unchanged; save never       *)
(* changes the stack.                                                      *)
C10_StackLifecycle ==
  [][/\ (save_contexts = active /\ exit_fault' # "AssertionError") =>
          save_contexts' = active'
     /\ (\E c \in Contexts : CaptureSaveContext_exit(c) /\ exit_fault' = "AssertionError") =>
          save_contexts' = save_contexts
     /\ call' # call => save_contexts' = save_contexts]_vars

====
